---- MODULE Spec2Model ----
(***************************************************************************)
(* The staleness-driven check scheduler of the streaming availability      *)
(* tracker: handleScheduled (worker/src/scheduled.ts) over the titles,     *)
(* services and availability_logs tables (worker/src/services/database.ts) *)
(* and the JustWatch lookup (worker/src/services/justwatch.ts).            *)
(*                                                                         *)
(* Time is counted in slots; SlotsPerDay slots make one UTC day.  A        *)
(* timestamp string is modelled by the three fields that decide every      *)
(* comparison the program makes on it: <<date, separator, time of day>>.   *)
(* Date.toISOString() yields "YYYY-MM-DDTHH:MM:SS.sssZ" (separator "T"),   *)
(* SQLite's datetime() yields "YYYY-MM-DD HH:MM:SS" (separator " ").       *)
(* SQL NULL is the empty tuple.                                            *)
(***************************************************************************)
EXTENDS Integers, Sequences, FiniteSets, TLC

\* ---------------------------------------------------------------- bounds
MaxTitles == 2          \* rows of the titles table
NumServices == 2        \* rows of the services table
SlotsPerDay == 2        \* clock resolution
MaxElapsed == 17        \* slots the clock may advance from the start
MaxFaults == 1          \* failed store writes and cut-off runs
MaxSizing == 700        \* catalog sizes 0..MaxSizing of the sizing computation
MaxBulk == 22           \* rows of the titles table after a bulk import
MaxRows == 3            \* rows of the titles table the selector is called on
MaxOffers == 2          \* offers in the answer to one lookup
MaxRequests == 2        \* import requests
MaxNames == 2           \* names or selections in the body of one import request
MaxTriggers == 1        \* requests to POST /api/trigger-check

\* ------------------------------------------------- program configuration
CRON_INTERVAL_MINUTES == 15
TARGET_CHECK_FREQUENCY_DAYS == 7
NEVER_CHECKED_CAP == 20
API_DELAY_MS == 500
RATE_LIMIT_BACKOFF_MS == 5000
MAX_TOTAL_TITLES == 5000
MAX_TITLES_PER_REQUEST == 50

NULL == <<>>

Min(a, b) == IF a < b THEN a ELSE b
Max(a, b) == IF a > b THEN a ELSE b

\* Math.floor(a / b)
Floor(a, b) == a \div b

\* Math.ceil(a / b) for integers a >= 0, b > 0
Ceil(a, b) == (a + b - 1) \div b

\* ------------------------------------------------------------ timestamps
\* byte value of the separator character at offset 10 of a timestamp string
SepCode(c) == IF c = "T" THEN 84 ELSE 32

\* new Date().toISOString() at clock value t
toISOString(t) == <<t \div SlotsPerDay, "T", t % SlotsPerDay>>

\* new Date().toISOString().split('T')[0]
isoDate(t) == t \div SlotsPerDay

\* SQLite datetime('now', '-N days') at clock value t
datetime(t, days) == <<(t \div SlotsPerDay) - days, " ", t % SlotsPerDay>>

\* SQLite BINARY text comparison a < b of two timestamp strings
TextLess(a, b) ==
  \/ a[1] < b[1]
  \/ a[1] = b[1] /\ SepCode(a[2]) < SepCode(b[2])
  \/ a[1] = b[1] /\ SepCode(a[2]) = SepCode(b[2]) /\ a[3] < b[3]

\* ORDER BY last_checked DESC NULLS FIRST
OrderBeforeDesc(a, b) ==
  IF a = NULL THEN b # NULL
  ELSE IF b = NULL THEN FALSE
  ELSE TextLess(b, a)

\* ORDER BY last_checked ASC NULLS FIRST: a sorts strictly before b
OrderBefore(a, b) ==
  IF a = NULL THEN b # NULL
  ELSE IF b = NULL THEN FALSE
  ELSE TextLess(a, b)

\* ------------------------------------------------------------- selector
\* WHERE last_checked IS NULL OR last_checked < datetime('now', '-(N+1) days')
IsStaleDayLate(lc, t, daysStale) ==
  \/ lc = NULL
  \/ TextLess(lc, datetime(t, daysStale + 1))

\* a query without its WHERE clause
IsStaleAlways(lc, t, daysStale) == TRUE

\* WHERE last_checked IS NULL OR last_checked < datetime('now', '-N days')
IsStale(lc, t, daysStale) ==
  \/ lc = NULL
  \/ TextLess(lc, datetime(t, daysStale))

\* insert row r behind every row of the sorted sequence s that does not sort
\* after it (the sort keeps the scan order of rows with equal keys)
RECURSIVE InsertSorted(_, _)
InsertSorted(r, s) ==
  IF s = <<>> THEN <<r>>
  ELSE IF OrderBefore(r.last_checked, s[1].last_checked)
       THEN <<r>> \o s
       ELSE <<s[1]>> \o InsertSorted(r, Tail(s))

RECURSIVE SortRows(_)
SortRows(s) ==
  IF s = <<>> THEN <<>>
  ELSE InsertSorted(s[Len(s)], SortRows(SubSeq(s, 1, Len(s) - 1)))

\* a LIMIT that lets one row too many through
LimitPlusOne(s, n) == SubSeq(s, 1, Min(n + 1, Len(s)))

\* LIMIT ?
Limit(s, n) == SubSeq(s, 1, Min(n, Len(s)))

\* getStaleTitles(db, limit, daysStale) at clock value t.  rows is the table
\* and scan the order in which the query visits its rows (a permutation of
\* the row numbers): SQL leaves the order of rows with equal keys open.
getStaleTitles(rows, scan, limit, daysStale, t) ==
  LET visited == [k \in 1..Len(scan) |-> rows[scan[k]]]
      where == SelectSeq(visited, LAMBDA r: IsStale(r.last_checked, t, daysStale))
  IN Limit(SortRows(where), limit)

\* ----------------------------------------------------------- batch sizing
runsPerPeriod == (TARGET_CHECK_FREQUENCY_DAYS * 24 * 60) \div CRON_INTERVAL_MINUTES

\* the steady-state size without its floor of 1
steadyStateBatchSizeNoFloor(totalTitles) == Ceil(totalTitles, runsPerPeriod)

steadyStateBatchSize(totalTitles) == Max(1, Ceil(totalTitles, runsPerPeriod))

\* the reservation one short of the never-checked titles
neverCheckedBatchSizeShort(rows) ==
  Max(0, Min(NEVER_CHECKED_CAP, Cardinality({k \in 1..Len(rows): rows[k].last_checked = NULL})) - 1)

\* allTitles.filter(t => !t.last_checked).length
neverCheckedCount(rows) == Cardinality({k \in 1..Len(rows): rows[k].last_checked = NULL})

neverCheckedBatchSize(rows) == Min(NEVER_CHECKED_CAP, neverCheckedCount(rows))

regularBatchSize(rows) ==
  Max(0, steadyStateBatchSize(Len(rows)) - neverCheckedBatchSize(rows))

\* a batch size that leaves the never-checked titles out of account
totalBatchSizeSteady(rows) == steadyStateBatchSize(Len(rows))

totalBatchSize(rows) == neverCheckedBatchSize(rows) + regularBatchSize(rows)

\* ------------------------------------------------------- services table
\* the slugs seeded into the services table, in rowid order
SeededSlugs == <<"nfx", "amp", "hlu", "dnp", "hbm", "atp", "pck", "pmp">>

\* getAllServices(db): SELECT * FROM services
getAllServices == [k \in 1..NumServices |-> [id |-> k, slug |-> SeededSlugs[k]]]

\* ------------------------------------------------------- JustWatch lookup
PackageNames == {"nfx", "amp", "hlu", "dnp", "hbm", "atp", "pct", "pcp", "pmp"}

PACKAGE_MAP ==
  [p \in PackageNames |-> IF p \in {"pct", "pcp"} THEN "pck" ELSE p]

\* String.prototype.toLowerCase on the short names the model uses
toLowerCase(x) ==
  IF x = "NFX" THEN "nfx"
  ELSE IF x = "PCT" THEN "pct"
  ELSE x

\* an extraction that does not look at the monetization type
extractServicesFromAnyOffer(offers) ==
  {PACKAGE_MAP[toLowerCase(offers[k].shortName)] :
     k \in {j \in 1..Len(offers) :
              /\ offers[j].shortName # ""
              /\ toLowerCase(offers[j].shortName) \in PackageNames}}

\* extractServicesFromOffers(offers): the slugs of the FLATRATE offers whose
\* package short name (offer.package?.shortName?.toLowerCase(), "" standing
\* for a missing or empty one) is a key of PACKAGE_MAP
extractServicesFromOffers(offers) ==
  {PACKAGE_MAP[toLowerCase(offers[k].shortName)] :
     k \in {j \in 1..Len(offers) :
              /\ offers[j].monetizationType = "FLATRATE"
              /\ offers[j].shortName # ""
              /\ toLowerCase(offers[j].shortName) \in PackageNames}}

Offer(p, m) == [shortName |-> p, monetizationType |-> m]

\* the offer lists an answered request may carry
OfferLists ==
  { <<>>,
    <<Offer("nfx", "FLATRATE"), Offer("xyz", "RENT")>> }

\* ways a request to the JustWatch API can fail: fetch rejects, the response
\* is not ok (status 429, or another 4xx/5xx), the body carries GraphQL errors
FailKinds == {"network", "http", "http429", "graphql"}

\* what one request to the JustWatch API can come back with: a failure, an
\* answer without offers, or an answer with an offer list
Responses ==
  [kind : FailKinds, has : {FALSE}, offers : {<<>>}]
  \cup [kind : {"ok"}, has : {FALSE}, offers : {<<>>}]
  \cup [kind : {"ok"}, has : {TRUE}, offers : OfferLists]

\* getTitleByPath(fullPath) on response r: the node, or null after any failure
getTitleByPath(r) ==
  IF r.kind = "ok" THEN [has |-> r.has, offers |-> r.offers]
  ELSE [has |-> FALSE, offers |-> <<>>]

\* searchTitle(query) on response r: the first result, or null after any failure
searchTitle(r) ==
  IF r.kind = "ok" THEN [has |-> r.has, offers |-> r.offers]
  ELSE [has |-> FALSE, offers |-> <<>>]

\* getTitleAvailability(justwatchId, type, titleName, fullPath) when the
\* request by path comes back with r1 and the request by name with r2
getTitleAvailability(fullPath, r1, r2) ==
  IF fullPath # NULL /\ getTitleByPath(r1).has
  THEN extractServicesFromOffers(getTitleByPath(r1).offers)
  ELSE IF ~searchTitle(r2).has
       THEN {}
       ELSE extractServicesFromOffers(searchTitle(r2).offers)

\* the response of the last request getTitleAvailability issued
lastResponse(fullPath, r1, r2) ==
  IF fullPath # NULL /\ getTitleByPath(r1).has THEN r1 ELSE r2

\* a lookup that stops after its first request
requestsIssuedOnce(fullPath, r1, r2) ==
  IF fullPath # NULL
  THEN <<[by |-> "path", found |-> getTitleByPath(r1).has]>>
  ELSE <<[by |-> "name", found |-> searchTitle(r2).has]>>

\* the requests getTitleAvailability issued, in order: by what each asked
\* and whether it came back with a title that carries offers
requestsIssued(fullPath, r1, r2) ==
  IF fullPath # NULL
  THEN IF getTitleByPath(r1).has
       THEN <<[by |-> "path", found |-> TRUE]>>
       ELSE <<[by |-> "path", found |-> FALSE],
              [by |-> "name", found |-> searchTitle(r2).has]>>
  ELSE <<[by |-> "name", found |-> searchTitle(r2).has]>>

\* one of the requests getTitleAvailability issued came back with status 429
answered429(fullPath, r1, r2) ==
  \/ fullPath # NULL /\ r1.kind = "http429"
  \/ ~(fullPath # NULL /\ getTitleByPath(r1).has) /\ r2.kind = "http429"

\* ----------------------------------------------------------------- state
VARIABLES
  titles,          \* the titles table, in rowid order
  logs,            \* the availability_logs table, in rowid order
  clock,           \* the wall clock, in slots
  pc,              \* where the run of handleScheduled stands
  now,             \* handleScheduled: const now
  today,           \* handleScheduled: const today
  allTitles,       \* handleScheduled: const allTitles
  staleTitles,     \* handleScheduled: const staleTitles
  idx,             \* position of the for loop in staleTitles
  svc,             \* position of the inner loop in services
  availableSlugs,  \* handleScheduled: const availableSlugs
  checked,         \* handleScheduled: let checked
  errors,          \* handleScheduled: let errors
  skipped,         \* handleScheduled: let skipped
  outcome,         \* per position of staleTitles: Pending, Skipped, Checked, Errored
  lookup,          \* per position of staleTitles: none, answered, failed
  logBase,         \* Len(logs) when the run started
  faults,          \* failed store writes and cut-off runs so far
  ticked,          \* the cron trigger has fired in the current slot
  cut,             \* the last run the platform cut off, and the batch after it
  arg,           \* input of the sizing computation
  ret,         \* result of the sizing computation
  delay,           \* milliseconds the run has slept since its last lookup returned
  rateLimited,     \* the last lookup of the run was answered with status 429
  inflight,        \* lookups of the run that are awaiting their answer
  requests,        \* the import requests in progress, one record each
  calls,           \* per position of staleTitles: the requests its lookup issued
  manual           \* the run of handleScheduled that POST /api/trigger-check started

dbVars == <<titles, logs>>
runVars == <<pc, now, today, allTitles, staleTitles, idx, svc, availableSlugs,
             checked, errors, skipped, outcome, lookup, logBase>>
vars == <<titles, logs, clock, faults, ticked, cut, pc, now, today, allTitles, staleTitles, idx, svc,
          availableSlugs, checked, errors, skipped, outcome, lookup, logBase,
          arg, ret, delay, rateLimited, inflight, requests, calls, manual>>

\* the clock starts late enough for every threshold date to be a date
StartClock == TARGET_CHECK_FREQUENCY_DAYS * SlotsPerDay
MaxClock == StartClock + MaxElapsed

\* the kinds of title an import can leave in the table: no JustWatch id,
\* a JustWatch id without a full path, a JustWatch id with a full path
TitleKinds == {"unresolved", "byName", "byPath"}

\* createTitle(db, name, type, justwatchId, fullPath, posterUrl): the row
\* INSERT INTO titles ... RETURNING * gives the title with rowid k
createTitle(k, kind) ==
  [id |-> k,
   justwatch_id |-> IF kind = "unresolved" THEN NULL ELSE <<100 + k>>,
   full_path |-> IF kind = "byPath" THEN <<k>> ELSE NULL,
   last_checked |-> NULL]

Catalogs ==
  UNION {[1..n -> TitleKinds] : n \in 0..MaxTitles}

\* no run has been cut off
NoCut ==
  [at |-> "none", batch |-> <<>>, done |-> 0, outcome |-> <<>>, before |-> <<>>,
   base |-> 0, now |-> NULL, next |-> <<>>]

\* no run started by POST /api/trigger-check is in progress; started counts
\* the requests made so far
NoManual(started) ==
  [pc |-> "idle", now |-> NULL, today |-> 0, staleTitles |-> <<>>, idx |-> 0, svc |-> 0,
   availableSlugs |-> {}, started |-> started]

IdleRun ==
  /\ pc = "idle"
  /\ now = NULL
  /\ today = 0
  /\ allTitles = <<>>
  /\ staleTitles = <<>>
  /\ idx = 0
  /\ svc = 0
  /\ availableSlugs = {}
  /\ checked = 0
  /\ errors = 0
  /\ skipped = 0
  /\ outcome = <<>>
  /\ lookup = <<>>
  /\ logBase = 0
  /\ delay = 0
  /\ rateLimited = FALSE
  /\ inflight = 0
  /\ calls = <<>>

Init ==
  /\ \E c \in Catalogs : titles = [k \in DOMAIN c |-> createTitle(k, c[k])]
  /\ logs = <<>>
  /\ clock = StartClock
  /\ faults = 0
  /\ ticked = FALSE
  /\ cut = NoCut
  /\ IdleRun
  /\ manual = NoManual(0)
  /\ requests = <<>>
  /\ arg = 0
  /\ ret = 0

\* ------------------------------------------------------------ store writes
\* an UPDATE without its WHERE clause
updateLastCheckedAll(rows, titleId, timestamp) ==
  [k \in DOMAIN rows |-> [rows[k] EXCEPT !.last_checked = timestamp]]

\* updateLastChecked(db, titleId, timestamp)
updateLastChecked(rows, titleId, timestamp) ==
  [k \in DOMAIN rows |->
     IF rows[k].id = titleId
     THEN [rows[k] EXCEPT !.last_checked = timestamp]
     ELSE rows[k]]

\* a logAvailability that stores a row only for an available service
logAvailabilityIfAvailable(rows, titleId, serviceId, checkDate, isAvailable) ==
  IF isAvailable
  THEN Append(rows, [title_id |-> titleId,
                     service_id |-> serviceId,
                     check_date |-> checkDate,
                     is_available |-> 1])
  ELSE rows

\* logAvailability(db, titleId, serviceId, checkDate, isAvailable)
logAvailability(rows, titleId, serviceId, checkDate, isAvailable) ==
  Append(rows, [title_id |-> titleId,
                service_id |-> serviceId,
                check_date |-> checkDate,
                is_available |-> IF isAvailable THEN 1 ELSE 0])

\* for (const service of services) { ... await logAvailability(...) }
RECURSIVE logServices(_, _, _, _, _)
logServices(rows, titleId, services, checkDate, slugs) ==
  IF services = <<>> THEN rows
  ELSE logServices(logAvailability(rows, titleId, services[1].id, checkDate,
                                   services[1].slug \in slugs),
                   titleId, Tail(services), checkDate, slugs)

\* ------------------------------------------------------- handleScheduled
\* the orders in which a query can visit the n rows of a table
Scans(n) == {f \in [1..n -> 1..n] : \A a, b \in 1..n : f[a] = f[b] => a = b}

\* from the entry of handleScheduled to the head of the for loop, with the
\* selector visiting the rows in the order scan
TickScan(scan) ==
  /\ pc = "idle"
  /\ allTitles' = titles
  /\ today' = isoDate(clock)
  /\ now' = toISOString(clock)
  /\ staleTitles' = getStaleTitles(titles, scan, totalBatchSize(titles),
                                   TARGET_CHECK_FREQUENCY_DAYS, clock)
  /\ checked' = 0
  /\ errors' = 0
  /\ skipped' = 0
  /\ idx' = 1
  /\ svc' = 0
  /\ availableSlugs' = {}
  /\ outcome' = [k \in 1..Len(staleTitles') |-> "Pending"]
  /\ lookup' = [k \in 1..Len(staleTitles') |-> "none"]
  /\ calls' = [k \in 1..Len(staleTitles') |-> <<>>]
  /\ logBase' = Len(logs)
  /\ pc' = "loop"
  /\ ticked' = TRUE
  /\ cut' = IF cut.at = "between"
            THEN [cut EXCEPT !.at = "resumed", !.next = staleTitles']
            ELSE NoCut
  /\ UNCHANGED <<titles, logs, clock, faults, arg, ret, delay, rateLimited, inflight, requests, manual>>

Tick == \E scan \in Scans(Len(titles)) : TickScan(scan)

AtTitle == pc = "loop" /\ idx <= Len(staleTitles)

\* a skip that also stamps the title as checked
SkipStamping ==
  /\ AtTitle
  /\ staleTitles[idx].justwatch_id = NULL
  /\ titles' = updateLastChecked(titles, staleTitles[idx].id, now)
  /\ skipped' = skipped + 1
  /\ outcome' = [outcome EXCEPT ![idx] = "Skipped"]
  /\ idx' = idx + 1
  /\ UNCHANGED <<logs, clock, pc, now, today, allTitles, staleTitles, svc,
                 availableSlugs, checked, errors, lookup, logBase, faults, ticked, cut, arg, ret, delay, rateLimited, inflight, requests, calls, manual>>

\* if (!title.justwatch_id) { skipped++; continue; }
Skip ==
  /\ AtTitle
  /\ staleTitles[idx].justwatch_id = NULL
  /\ skipped' = skipped + 1
  /\ outcome' = [outcome EXCEPT ![idx] = "Skipped"]
  /\ idx' = idx + 1
  /\ UNCHANGED <<titles, logs, clock, pc, now, today, allTitles, staleTitles, svc,
                 availableSlugs, checked, errors, lookup, logBase, faults, ticked, cut, arg, ret, delay, rateLimited, inflight, requests, calls, manual>>

\* getTitleAvailability(...) is called: its first request goes out and the
\* run is suspended on the await
Request ==
  /\ AtTitle
  /\ staleTitles[idx].justwatch_id # NULL
  /\ pc' = "lookup"
  /\ inflight' = inflight + 1
  /\ UNCHANGED <<titles, logs, clock, now, today, allTitles, staleTitles, idx, svc,
                 availableSlugs, checked, errors, skipped, outcome, lookup, logBase,
                 faults, ticked, cut, arg, ret, delay, rateLimited, requests, calls, manual>>

\* the call without its await: the loop goes on while the request is out
LookupDetached ==
  /\ pc = "lookup"
  /\ availableSlugs' = {}
  /\ lookup' = [lookup EXCEPT ![idx] = "answered"]
  /\ svc' = 1
  /\ pc' = IF NumServices = 0 THEN "update" ELSE "log"
  /\ UNCHANGED <<titles, logs, clock, now, today, allTitles, staleTitles, idx,
                 checked, errors, skipped, outcome, logBase, faults, ticked, cut, arg, ret,
                 delay, rateLimited, inflight, requests, calls, manual>>

\* const availableSlugs = await getTitleAvailability(...): the call returns
Lookup ==
  /\ pc = "lookup"
  /\ \E r1, r2 \in Responses :
       /\ availableSlugs' = getTitleAvailability(staleTitles[idx].full_path, r1, r2)
       /\ lookup' = [lookup EXCEPT ![idx] =
                       IF lastResponse(staleTitles[idx].full_path, r1, r2).kind \in FailKinds
                       THEN "failed" ELSE "answered"]
       /\ rateLimited' = answered429(staleTitles[idx].full_path, r1, r2)
       /\ calls' = [calls EXCEPT ![idx] = requestsIssued(staleTitles[idx].full_path, r1, r2)]
  /\ inflight' = inflight - 1
  /\ delay' = 0
  /\ svc' = 1
  /\ pc' = IF NumServices = 0 THEN "update" ELSE "log"
  /\ UNCHANGED <<titles, logs, clock, now, today, allTitles, staleTitles, idx,
                 checked, errors, skipped, outcome, logBase, faults, ticked, cut, arg, ret, requests, manual>>

\* one pass of: for (const service of services) { await logAvailability(...) }
LogRow ==
  /\ pc = "log"
  /\ logs' = logAvailability(logs, staleTitles[idx].id, getAllServices[svc].id, today,
                             getAllServices[svc].slug \in availableSlugs)
  /\ svc' = svc + 1
  /\ pc' = IF svc = NumServices THEN "update" ELSE "log"
  /\ UNCHANGED <<titles, clock, now, today, allTitles, staleTitles, idx,
                 availableSlugs, checked, errors, skipped, outcome, lookup, logBase,
                 faults, ticked, cut, arg, ret, delay, rateLimited, inflight, requests, calls, manual>>

\* an update that leaves the title out of the checked counter
UpdateUncounted ==
  /\ pc = "update"
  /\ titles' = updateLastChecked(titles, staleTitles[idx].id, now)
  /\ outcome' = [outcome EXCEPT ![idx] = "Checked"]
  /\ idx' = idx + 1
  /\ pc' = "loop"
  /\ delay' = delay + API_DELAY_MS
  /\ UNCHANGED <<logs, clock, now, today, allTitles, staleTitles, svc,
                 availableSlugs, checked, errors, skipped, lookup, logBase, faults, ticked, cut, arg, ret,
                 rateLimited, inflight, requests, calls, manual>>

\* await updateLastChecked(env.DB, title.id, now); checked++; the pacing delay
Update ==
  /\ pc = "update"
  /\ titles' = updateLastChecked(titles, staleTitles[idx].id, now)
  /\ checked' = checked + 1
  /\ outcome' = [outcome EXCEPT ![idx] = "Checked"]
  /\ idx' = idx + 1
  /\ pc' = "loop"
  /\ delay' = delay + API_DELAY_MS
  /\ UNCHANGED <<logs, clock, now, today, allTitles, staleTitles, svc,
                 availableSlugs, errors, skipped, lookup, logBase, faults, ticked, cut, arg, ret,
                 rateLimited, inflight, requests, calls, manual>>

\* the errors a rejected store write can carry, by what the catch block
\* reads of them: error.message.includes('429')
StoreErrors == {[includes429 |-> FALSE], [includes429 |-> TRUE]}

\* a catch block that does not count the error
CatchSilent ==
  /\ pc \in {"log", "update"}
  /\ faults < MaxFaults
  /\ faults' = faults + 1
  /\ outcome' = [outcome EXCEPT ![idx] = "Errored"]
  /\ idx' = idx + 1
  /\ pc' = "loop"
  /\ \E error \in StoreErrors :
       delay' = delay + (IF error.includes429 THEN RATE_LIMIT_BACKOFF_MS ELSE 0)
  /\ UNCHANGED <<titles, logs, clock, now, today, allTitles, staleTitles, svc,
                 availableSlugs, checked, errors, skipped, lookup, logBase, ticked, cut, arg, ret,
                 rateLimited, inflight, requests, calls, manual>>

\* a store write (logAvailability or updateLastChecked) throws:
\* catch (error) { errors++; ... }, with the longer sleep when the message
\* of the error holds '429', and the loop goes on with the next title
Catch ==
  /\ pc \in {"log", "update"}
  /\ faults < MaxFaults
  /\ faults' = faults + 1
  /\ errors' = errors + 1
  /\ outcome' = [outcome EXCEPT ![idx] = "Errored"]
  /\ idx' = idx + 1
  /\ pc' = "loop"
  /\ \E error \in StoreErrors :
       delay' = delay + (IF error.includes429 THEN RATE_LIMIT_BACKOFF_MS ELSE 0)
  /\ UNCHANGED <<titles, logs, clock, now, today, allTitles, staleTitles, svc,
                 availableSlugs, checked, skipped, lookup, logBase, ticked, cut, arg, ret,
                 rateLimited, inflight, requests, calls, manual>>

ResetRun ==
  /\ pc' = "idle"
  /\ now' = NULL
  /\ today' = 0
  /\ allTitles' = <<>>
  /\ staleTitles' = <<>>
  /\ idx' = 0
  /\ svc' = 0
  /\ availableSlugs' = {}
  /\ checked' = 0
  /\ errors' = 0
  /\ skipped' = 0
  /\ outcome' = <<>>
  /\ lookup' = <<>>
  /\ logBase' = 0
  /\ delay' = 0
  /\ rateLimited' = FALSE
  /\ inflight' = 0
  /\ calls' = <<>>

\* the for loop is exhausted and handleScheduled returns
Finish ==
  /\ pc = "loop"
  /\ idx > Len(staleTitles)
  /\ ResetRun
  /\ UNCHANGED <<titles, logs, clock, faults, ticked, cut, arg, ret, requests, manual>>

\* the platform ends the invocation before handleScheduled returns
Truncate ==
  /\ pc # "idle"
  /\ ~(pc = "loop" /\ idx > Len(staleTitles))
  /\ faults < MaxFaults
  /\ faults' = faults + 1
  /\ cut' = [at |-> IF pc = "loop" THEN "between" ELSE "within",
             batch |-> staleTitles, done |-> idx - 1, outcome |-> outcome,
             before |-> allTitles, base |-> logBase, now |-> now, next |-> <<>>]
  /\ ResetRun
  /\ UNCHANGED <<titles, logs, clock, ticked, arg, ret, requests, manual>>

\* one slot of time passes; the cron trigger fires every
\* CRON_INTERVAL_MINUTES, so no slot goes by without a run
Advance ==
  /\ pc = "idle"
  /\ ticked
  /\ clock < MaxClock
  /\ clock' = clock + 1
  /\ ticked' = FALSE
  /\ UNCHANGED cut
  /\ UNCHANGED <<titles, logs, pc, now, today, allTitles, staleTitles, idx, svc,
                 availableSlugs, checked, errors, skipped, outcome, lookup, logBase,
                 faults, arg, ret, delay, rateLimited, inflight, requests, calls, manual>>

Next ==
  \/ Tick
  \/ Skip
  \/ Request
  \/ Lookup
  \/ LogRow
  \/ Update
  \/ Catch
  \/ Finish
  \/ Truncate
  \/ Advance

Spec == Init /\ [][Next]_vars

\* the cron trigger keeps firing, a started run keeps going, time passes
FairSpec ==
  /\ Spec
  /\ WF_vars(Tick)
  /\ WF_vars(Skip \/ Request \/ Lookup \/ LogRow \/ Update \/ Finish)
  /\ WF_vars(Advance)

\* ------------------------------------------------ the selector on its own
\* ages (in slots) of the timestamps an earlier run may have stored: just
\* checked, or within a day or so of the staleness threshold
SelAges ==
  {a \in 0..MaxElapsed : a = 0 \/ a >= (TARGET_CHECK_FREQUENCY_DAYS - 1) * SlotsPerDay}

\* the values of last_checked at clock value t: NULL, or what
\* updateLastChecked stored in an earlier run
Stamps(t) == {NULL} \cup {toISOString(t - a) : a \in SelAges}

SelInit ==
  /\ clock \in {MaxClock - 1, MaxClock}
  /\ \E n \in 0..MaxRows : \E lc \in [1..n -> Stamps(clock)] :
       titles = [k \in 1..n |-> [createTitle(k, "byName") EXCEPT !.last_checked = lc[k]]]
  /\ logs = <<>>
  /\ faults = 0
  /\ ticked = FALSE
  /\ cut = NoCut
  /\ IdleRun
  /\ manual = NoManual(0)
  /\ requests = <<>>
  /\ arg \in 0..MaxRows
  /\ ret = <<>>

\* one call getStaleTitles(db, arg, TARGET_CHECK_FREQUENCY_DAYS)
Select ==
  /\ pc = "idle"
  /\ \E scan \in Scans(Len(titles)) :
       ret' = getStaleTitles(titles, scan, arg, TARGET_CHECK_FREQUENCY_DAYS, clock)
  /\ pc' = "returned"
  /\ UNCHANGED <<titles, logs, clock, faults, ticked, cut, now, today, allTitles,
                 staleTitles, idx, svc, availableSlugs, checked, errors, skipped,
                 outcome, lookup, logBase, arg, delay, rateLimited, inflight, requests, calls, manual>>

\* the same call once more, on the same table and with the same limit, as
\* handleScheduled makes it: const staleTitles = await getStaleTitles(...)
Reselect ==
  /\ pc = "returned"
  /\ \E scan \in Scans(Len(titles)) :
       staleTitles' = getStaleTitles(titles, scan, arg, TARGET_CHECK_FREQUENCY_DAYS, clock)
  /\ pc' = "again"
  /\ UNCHANGED <<titles, logs, clock, faults, ticked, cut, now, today, allTitles,
                 idx, svc, availableSlugs, checked, errors, skipped,
                 outcome, lookup, logBase, arg, ret, delay, rateLimited, inflight, requests, calls, manual>>

SelectorSpec == SelInit /\ [][Select \/ Reselect]_vars

\* ---------------------------------------------- the sizing rule on its own
SizingInputs == (0..MaxSizing) \cup {6719, 6720, 6721, 67199, 67200, 67201}

SizingInit ==
  /\ titles = <<>>
  /\ logs = <<>>
  /\ clock = StartClock
  /\ faults = 0
  /\ ticked = FALSE
  /\ cut = NoCut
  /\ IdleRun
  /\ manual = NoManual(0)
  /\ requests = <<>>
  /\ arg \in SizingInputs
  /\ ret = 0

\* steadyStateBatchSize for a catalog of arg titles
Size ==
  /\ pc = "idle"
  /\ ret' = steadyStateBatchSize(arg)
  /\ pc' = "returned"
  /\ UNCHANGED <<titles, logs, clock, faults, ticked, cut, now, today, allTitles,
                 staleTitles, idx, svc, availableSlugs, checked, errors, skipped,
                 outcome, lookup, logBase, arg, delay, rateLimited, inflight, requests, calls, manual>>

SizingSpec == SizingInit /\ [][Size]_vars

\* --------------------------------------------- the run after a bulk import
\* a catalog of n titles of which the k with the highest rowids were never
\* checked and the others are stale, each a slot older than the next
BulkCatalog(n, k, t) ==
  [j \in 1..n |->
     [createTitle(j, "byName") EXCEPT
        !.last_checked = IF j > n - k THEN NULL
                         ELSE toISOString(t - (TARGET_CHECK_FREQUENCY_DAYS + 1) * SlotsPerDay - j)]]

BulkClock == (MaxBulk + 1) + (2 * TARGET_CHECK_FREQUENCY_DAYS + 1) * SlotsPerDay

BulkInit ==
  /\ clock = BulkClock
  /\ \E n \in 0..MaxBulk : \E k \in 0..n : titles = BulkCatalog(n, k, clock)
  /\ logs = <<>>
  /\ faults = 0
  /\ ticked = FALSE
  /\ cut = NoCut
  /\ IdleRun
  /\ manual = NoManual(0)
  /\ requests = <<>>
  /\ arg = 0
  /\ ret = 0

\* the visiting orders by rowid, upwards and downwards, of a table of n rows
BulkScans(n) == {[j \in 1..n |-> j], [j \in 1..n |-> n + 1 - j]}

\* the run starts; the selector visits the rows by rowid, upwards or downwards
BulkTick ==
  \E scan \in BulkScans(Len(titles)) : TickScan(scan)

BulkSpec == BulkInit /\ [][BulkTick]_vars

\* ------------------------------------- one target period of cron triggers
\* the titles table after the for loop has gone through batch with no
\* store write failing: updateLastChecked(db, title.id, now) for every title
\* of the batch that has a JustWatch id
stampBatch(rows, batch, nowStamp) ==
  [k \in DOMAIN rows |->
     IF \E j \in 1..Len(batch) : batch[j].id = rows[k].id /\ batch[j].justwatch_id # NULL
     THEN [rows[k] EXCEPT !.last_checked = nowStamp]
     ELSE rows[k]]

\* the availability_logs table after that loop, each lookup answered with
\* slugs: logAvailability for every such title in turn and, for each, every
\* service in turn
logBatch(logRows, batch, services, todayDate, slugs) ==
  LET looked == SelectSeq(batch, LAMBDA r : r.justwatch_id # NULL)
      n == Len(services)
  IN logRows \o
       [i \in 1..(Len(looked) * n) |->
          [title_id |-> looked[((i - 1) \div n) + 1].id,
           service_id |-> services[((i - 1) % n) + 1].id,
           check_date |-> todayDate,
           is_available |-> IF services[((i - 1) % n) + 1].slug \in slugs THEN 1 ELSE 0]]

\* the clock at the n-th cron trigger, one every CRON_INTERVAL_MINUTES
ClockAtTrigger(n) == StartClock + (n * CRON_INTERVAL_MINUTES * SlotsPerDay) \div (24 * 60)

\* the catalog sizes the period is run for: none, one, as many as one run
\* reserves for never-checked titles, and more than that
PeriodSizes == {0, 1, NEVER_CHECKED_CAP, MaxBulk}

\* a catalog of titles with a JustWatch id, none checked yet; arg counts the
\* cron triggers that have fired
PeriodInit ==
  /\ \E n \in PeriodSizes : titles = [k \in 1..n |-> createTitle(k, "byName")]
  /\ logs = <<>>
  /\ clock = StartClock
  /\ faults = 0
  /\ ticked = FALSE
  /\ cut = NoCut
  /\ IdleRun
  /\ manual = NoManual(0)
  /\ requests = <<>>
  /\ arg = 0
  /\ ret = 0

\* the cron trigger fires and handleScheduled runs to its end
PeriodTick ==
  /\ pc = "idle"
  /\ arg < runsPerPeriod
  /\ \E scan \in BulkScans(Len(titles)), r \in Responses :
       LET batch == getStaleTitles(titles, scan, totalBatchSize(titles),
                                   TARGET_CHECK_FREQUENCY_DAYS, clock)
       IN /\ titles' = stampBatch(titles, batch, toISOString(clock))
          /\ logs' = logBatch(logs, batch, getAllServices, isoDate(clock),
                              getTitleAvailability(NULL, r, r))
  /\ arg' = arg + 1
  /\ clock' = ClockAtTrigger(arg + 1)
  /\ UNCHANGED <<faults, ticked, cut, pc, now, today, allTitles, staleTitles, idx, svc,
                 availableSlugs, checked, errors, skipped, outcome, lookup, logBase,
                 ret, delay, rateLimited, inflight, requests, calls, manual>>

PeriodSpec == PeriodInit /\ [][PeriodTick]_vars

\* ------------------------------------------ the make-up of a large batch
\* A catalog by its counts: total titles, of which never are never-checked
\* and stale are checked but stale (the rest are fresh).
\* a batch size that adds the reservation to the whole steady-state size
batchSizeOfSum(total, never) ==
  Min(NEVER_CHECKED_CAP, never) + steadyStateBatchSize(total)

\* totalBatchSize for such a catalog
batchSizeOf(total, never) ==
  Min(NEVER_CHECKED_CAP, never)
    + Max(0, steadyStateBatchSize(total) - Min(NEVER_CHECKED_CAP, never))

\* what ORDER BY last_checked ASC NULLS FIRST LIMIT limit returns of never
\* never-checked and stale stale rows: the never-checked ones come first
selected(never, stale, limit) ==
  [never |-> Min(never, limit),
   stale |-> Min(stale, limit - Min(never, limit))]

\* the stale counts the make-up is computed for
StaleCounts == {0, 1, 2, MaxBulk, MaxSizing}

PartitionInit ==
  /\ titles = <<>>
  /\ logs = <<>>
  /\ clock = StartClock
  /\ faults = 0
  /\ ticked = FALSE
  /\ cut = NoCut
  /\ IdleRun
  /\ manual = NoManual(0)
  /\ requests = <<>>
  /\ \E total \in SizingInputs, never \in 0..MaxBulk, stale \in StaleCounts :
       /\ never + stale <= total
       /\ arg = [total |-> total, never |-> never, stale |-> stale]
  /\ ret = 0

\* the run selects its batch from a catalog with the counts arg
Partition ==
  /\ pc = "idle"
  /\ ret' = selected(arg.never, arg.stale, batchSizeOf(arg.total, arg.never))
  /\ pc' = "returned"
  /\ UNCHANGED <<titles, logs, clock, faults, ticked, cut, now, today, allTitles,
                 staleTitles, idx, svc, availableSlugs, checked, errors, skipped,
                 outcome, lookup, logBase, arg, delay, rateLimited, inflight, requests, calls, manual>>

PartitionSpec == PartitionInit /\ [][Partition]_vars

\* ------------------------------------------- one answered lookup, logged
\* the services table as schema.sql seeds it
seededServices == [k \in 1..Len(SeededSlugs) |-> [id |-> k, slug |-> SeededSlugs[k]]]

\* package short names and monetization types of the offers in an answer
ShortNames == {"nfx", "amp", "pct", "pcp", "xyz", "NFX", ""}
MonetizationTypes == {"FLATRATE", "RENT", "BUY"}

OfferSamples == {Offer(p, m) : p \in ShortNames, m \in MonetizationTypes}

OfferInit ==
  /\ titles = <<createTitle(1, "byName")>>
  /\ logs = <<>>
  /\ clock = StartClock
  /\ faults = 0
  /\ ticked = FALSE
  /\ cut = NoCut
  /\ IdleRun
  /\ manual = NoManual(0)
  /\ requests = <<>>
  /\ arg \in UNION {[1..n -> OfferSamples] : n \in 0..MaxOffers}
  /\ ret = 0

\* the lookup of title 1 is answered with the offer list arg and the run
\* writes the title's row for every service
LogOffers ==
  /\ pc = "idle"
  /\ LET r == [kind |-> "ok", has |-> TRUE, offers |-> arg]
         slugs == getTitleAvailability(titles[1].full_path, r, r)
     IN /\ availableSlugs' = slugs
        /\ logs' = logServices(logs, titles[1].id, seededServices, isoDate(clock), slugs)
  /\ pc' = "returned"
  /\ UNCHANGED <<titles, clock, faults, ticked, cut, now, today, allTitles,
                 staleTitles, idx, svc, checked, errors, skipped,
                 outcome, lookup, logBase, arg, ret, delay, rateLimited, inflight, requests, calls, manual>>

OfferSpec == OfferInit /\ [][LogOffers]_vars

\* ------------------------------------------------------ import requests
\* String.prototype.trim on the names the model uses
trim(x) == IF x = " dune" THEN "dune" ELSE x

\* SQLite LOWER() on the names the model uses
LOWER(x) ==
  IF x = "Dune" THEN "dune"
  ELSE IF x = "Dune 1984" THEN "dune 1984"
  ELSE x

\* the titles JustWatch knows: two films that carry the same title
JustWatchTitles ==
  { [id |-> 1, title |-> "Dune", fullPath |-> <<1>>, offers |-> <<Offer("nfx", "FLATRATE")>>],
    [id |-> 2, title |-> "Dune", fullPath |-> NULL, offers |-> <<>>] }

\* the names a client asks for
Queries == {"Dune", " dune", "Dune 1984"}

\* what searchTitle(query) can resolve to: null (no result, or a failed
\* request), or the first result of the search, as a list of none or one
searchResults(query) ==
  {NULL} \cup {<<e>> : e \in {t \in JustWatchTitles :
                                t.id = IF query = "Dune 1984" THEN 2 ELSE 1}}

\* findTitleByName(db, name): SELECT * FROM titles WHERE LOWER(name) = LOWER(?)
findTitleByName(rows, name) ==
  SelectSeq(rows, LAMBDA r : LOWER(r.name) = LOWER(name))

\* findTitleByJustWatchId(db, justwatchId): ... WHERE justwatch_id = ?
findTitleByJustWatchId(rows, justwatchId) ==
  SelectSeq(rows, LAMBDA r : r.justwatch_id = justwatchId)

\* createTitle(db, name, type, justwatchId, fullPath, posterUrl) on a table
\* that holds rows and, next to them, others rows that no request matches:
\* INSERT INTO titles (...) VALUES (...) RETURNING *
insertTitle(rows, others, name, justwatchId, fullPath) ==
  Append(rows, [id |-> others + Len(rows) + 1,
                name |-> name,
                justwatch_id |-> justwatchId,
                full_path |-> fullPath,
                last_checked |-> NULL])

\* SELECT COUNT(*) as count FROM titles
countTitles == arg + Len(titles)

\* the request bodies: lists of names for /api/sync, lists of chosen
\* JustWatch results for /api/sync/confirm
SyncBodies == UNION {[1..n -> Queries] : n \in 1..MaxNames}
ConfirmBodies == UNION {[1..n -> JustWatchTitles] : n \in 1..MaxNames}

\* a request that has returned
Returned429(route) ==
  [route |-> route, pc |-> "rejected", items |-> <<>>, i |-> 0, jw |-> NULL, row |-> 0, svc |-> 0]
Returned200(route) ==
  [route |-> route, pc |-> "done", items |-> <<>>, i |-> 0, jw |-> NULL, row |-> 0, svc |-> 0]

\* request q at the head of its for loop for item i
AtItem(q, i) ==
  IF q.route = "sync"
  THEN [q EXCEPT !.i = i, !.pc = "byName", !.jw = NULL, !.row = 0, !.svc = 0]
  ELSE [q EXCEPT !.i = i, !.pc = "byId", !.jw = <<q.items[i]>>, !.row = 0, !.svc = 0]

\* continue, or the end of the for loop and the response
NextItem(q) ==
  IF q.i < Len(q.items) THEN AtItem(q, q.i + 1) ELSE Returned200(q.route)

\* a request enters its handler: the size check of the body and the check
\* of the total against MAX_TOTAL_TITLES, up to the head of the for loop
Enter(route, items) ==
  /\ Len(requests) < MaxRequests
  /\ Len(items) <= MAX_TITLES_PER_REQUEST
  /\ requests' = Append(requests,
                        IF countTitles >= MAX_TOTAL_TITLES
                        THEN Returned429(route)
                        ELSE AtItem([route |-> route, pc |-> "", items |-> items,
                                     i |-> 0, jw |-> NULL, row |-> 0, svc |-> 0], 1))
  /\ UNCHANGED <<titles, logs, clock, faults, ticked, cut, pc, now, today, allTitles,
                 staleTitles, idx, svc, availableSlugs, checked, errors, skipped,
                 outcome, lookup, logBase, arg, ret, delay, rateLimited, inflight, calls, manual>>

\* POST /api/sync
handleSync == \E names \in SyncBodies : Enter("sync", names)

\* POST /api/sync/confirm
handleSyncConfirm == \E selections \in ConfirmBodies : Enter("confirm", selections)

ImportStep(n, q) ==
  /\ requests' = [requests EXCEPT ![n] = q]
  /\ UNCHANGED <<clock, faults, ticked, cut, pc, now, today, allTitles,
                 staleTitles, idx, svc, availableSlugs, checked, errors, skipped,
                 outcome, lookup, logBase, arg, ret, delay, rateLimited, inflight, calls, manual>>

\* handleSync: const existingByName = await findTitleByName(env.DB, trimmedName)
SyncFindByName(n) ==
  /\ requests[n].pc = "byName"
  /\ LET q == requests[n]
         trimmedName == trim(q.items[q.i])
     IN ImportStep(n, IF trimmedName = "" \/ findTitleByName(titles, trimmedName) # <<>>
                      THEN NextItem(q)
                      ELSE [q EXCEPT !.pc = "search"])
  /\ UNCHANGED <<titles, logs>>

\* handleSync: const jwResult = await searchTitle(trimmedName)
SyncSearch(n) ==
  /\ requests[n].pc = "search"
  /\ LET q == requests[n]
     IN \E jwResult \in searchResults(trim(q.items[q.i])) :
          ImportStep(n, IF jwResult = NULL
                        THEN NextItem(q)
                        ELSE [q EXCEPT !.pc = "byId", !.jw = jwResult])
  /\ UNCHANGED <<titles, logs>>

\* both handlers: const existingById = await findTitleByJustWatchId(...)
FindById(n) ==
  /\ requests[n].pc = "byId"
  /\ LET q == requests[n]
     IN ImportStep(n, IF findTitleByJustWatchId(titles, <<q.jw[1].id>>) # <<>>
                      THEN NextItem(q)
                      ELSE [q EXCEPT !.pc = "create"])
  /\ UNCHANGED <<titles, logs>>

\* both handlers: const title = await createTitle(...)
Create(n) ==
  /\ requests[n].pc = "create"
  /\ LET q == requests[n]
     IN /\ titles' = insertTitle(titles, arg, q.jw[1].title, <<q.jw[1].id>>, q.jw[1].fullPath)
        /\ ImportStep(n, [q EXCEPT !.pc = "log", !.row = titles'[Len(titles')].id, !.svc = 1])
  /\ UNCHANGED logs

\* both handlers, one pass of the loop that logs the initial availability:
\* await logAvailability(env.DB, title.id, service.id, today, isAvailable)
LogInitial(n) ==
  /\ requests[n].pc = "log"
  /\ LET q == requests[n]
         serviceSlugs == extractServicesFromOffers(q.jw[1].offers)
     IN /\ logs' = logAvailability(logs, q.row, getAllServices[q.svc].id, isoDate(clock),
                                   getAllServices[q.svc].slug \in serviceSlugs)
        /\ ImportStep(n, IF q.svc = NumServices
                         THEN NextItem(q)
                         ELSE [q EXCEPT !.svc = q.svc + 1])
  /\ UNCHANGED titles

\* the cron trigger fires once while requests are being served, on a table
\* that holds no other rows than the ones they created, and handleScheduled
\* runs to its end with every lookup answered by r
CheckImported ==
  /\ arg = 0
  /\ ticked = FALSE
  /\ ticked' = TRUE
  /\ \E scan \in BulkScans(Len(titles)), r \in Responses :
       LET batch == getStaleTitles(titles, scan, totalBatchSize(titles),
                                   TARGET_CHECK_FREQUENCY_DAYS, clock)
       IN /\ batch # <<>>
          /\ titles' = stampBatch(titles, batch, toISOString(clock))
          /\ logs' = logBatch(logs, batch, getAllServices, isoDate(clock),
                              getTitleAvailability(NULL, r, r))
  /\ UNCHANGED <<clock, faults, cut, pc, now, today, allTitles, staleTitles, idx, svc,
                 availableSlugs, checked, errors, skipped, outcome, lookup, logBase,
                 arg, ret, delay, rateLimited, inflight, requests, calls, manual>>

\* the numbers of rows the table holds besides the ones the requests create
OtherRows == {0, MAX_TOTAL_TITLES - 1, MAX_TOTAL_TITLES}

ImportInit ==
  /\ titles = <<>>
  /\ logs = <<>>
  /\ clock = StartClock
  /\ faults = 0
  /\ ticked = FALSE
  /\ cut = NoCut
  /\ IdleRun
  /\ manual = NoManual(0)
  /\ requests = <<>>
  /\ arg \in OtherRows
  /\ ret = 0

ImportNext ==
  \/ handleSync
  \/ handleSyncConfirm
  \/ \E n \in 1..Len(requests) : SyncFindByName(n)
  \/ \E n \in 1..Len(requests) : SyncSearch(n)
  \/ \E n \in 1..Len(requests) : FindById(n)
  \/ \E n \in 1..Len(requests) : Create(n)
  \/ \E n \in 1..Len(requests) : LogInitial(n)
  \/ CheckImported

ImportSpec == ImportInit /\ [][ImportNext]_vars

\* ------------------------------------- the manual trigger next to the cron
\* POST /api/trigger-check: await handleScheduled(env), from its entry to
\* the head of the for loop, whatever the cron-triggered run is doing
TriggerCheck ==
  /\ manual.pc = "idle"
  /\ manual.started < MaxTriggers
  /\ \E scan \in Scans(Len(titles)) :
       manual' = [pc |-> "loop",
                  now |-> toISOString(clock),
                  today |-> isoDate(clock),
                  staleTitles |-> getStaleTitles(titles, scan, totalBatchSize(titles),
                                                 TARGET_CHECK_FREQUENCY_DAYS, clock),
                  idx |-> 1,
                  svc |-> 0,
                  availableSlugs |-> {},
                  started |-> manual.started + 1]
  /\ UNCHANGED <<titles, logs, clock, faults, ticked, cut, pc, now, today, allTitles,
                 staleTitles, idx, svc, availableSlugs, checked, errors, skipped,
                 outcome, lookup, logBase, arg, ret, delay, rateLimited, inflight,
                 requests, calls>>

ManualAtTitle == manual.pc = "loop" /\ manual.idx <= Len(manual.staleTitles)

\* the steps of that run; they leave the variables of the other run alone
ManualStep(m) ==
  /\ manual' = m
  /\ UNCHANGED <<clock, faults, ticked, cut, pc, now, today, allTitles,
                 staleTitles, idx, svc, availableSlugs, checked, errors, skipped,
                 outcome, lookup, logBase, arg, ret, delay, rateLimited, inflight,
                 requests, calls>>

\* if (!title.justwatch_id) { skipped++; continue; }
ManualSkip ==
  /\ ManualAtTitle
  /\ manual.staleTitles[manual.idx].justwatch_id = NULL
  /\ ManualStep([manual EXCEPT !.idx = manual.idx + 1])
  /\ UNCHANGED <<titles, logs>>

\* getTitleAvailability(...) is called
ManualRequest ==
  /\ ManualAtTitle
  /\ manual.staleTitles[manual.idx].justwatch_id # NULL
  /\ ManualStep([manual EXCEPT !.pc = "lookup"])
  /\ UNCHANGED <<titles, logs>>

\* const availableSlugs = await getTitleAvailability(...): the call returns
ManualLookup ==
  /\ manual.pc = "lookup"
  /\ \E r1, r2 \in Responses :
       ManualStep([manual EXCEPT
                     !.availableSlugs =
                        getTitleAvailability(manual.staleTitles[manual.idx].full_path, r1, r2),
                     !.svc = 1,
                     !.pc = IF NumServices = 0 THEN "update" ELSE "log"])
  /\ UNCHANGED <<titles, logs>>

\* one pass of: for (const service of services) { await logAvailability(...) }
ManualLogRow ==
  /\ manual.pc = "log"
  /\ logs' = logAvailability(logs, manual.staleTitles[manual.idx].id,
                             getAllServices[manual.svc].id, manual.today,
                             getAllServices[manual.svc].slug \in manual.availableSlugs)
  /\ ManualStep([manual EXCEPT !.svc = manual.svc + 1,
                               !.pc = IF manual.svc = NumServices THEN "update" ELSE "log"])
  /\ UNCHANGED titles

\* an update that stamps the title with the time of the update
ManualUpdateAtWrite ==
  /\ manual.pc = "update"
  /\ titles' = updateLastChecked(titles, manual.staleTitles[manual.idx].id, toISOString(clock))
  /\ ManualStep([manual EXCEPT !.idx = manual.idx + 1, !.pc = "loop", !.availableSlugs = {}])
  /\ UNCHANGED logs

\* await updateLastChecked(env.DB, title.id, now)
ManualUpdate ==
  /\ manual.pc = "update"
  /\ titles' = updateLastChecked(titles, manual.staleTitles[manual.idx].id, manual.now)
  /\ ManualStep([manual EXCEPT !.idx = manual.idx + 1, !.pc = "loop", !.availableSlugs = {}])
  /\ UNCHANGED logs

\* the for loop is exhausted and the request is answered
ManualFinish ==
  /\ manual.pc = "loop"
  /\ manual.idx > Len(manual.staleTitles)
  /\ ManualStep(NoManual(manual.started))
  /\ UNCHANGED <<titles, logs>>

\* the catalogs the two runs meet on: one title with a JustWatch id, alone
\* or behind a title without one
OverlapCatalogs == {<<"byName">>, <<"unresolved", "byName">>}

\* titles that were imported after the cron trigger of the current slot
\* fired; the clock is two slots from its bound
OverlapInit ==
  /\ \E c \in OverlapCatalogs : titles = [k \in DOMAIN c |-> createTitle(k, c[k])]
  /\ logs = <<>>
  /\ clock = MaxClock - 2
  /\ faults = 0
  /\ ticked = TRUE
  /\ cut = NoCut
  /\ IdleRun
  /\ manual = NoManual(0)
  /\ requests = <<>>
  /\ arg = 0
  /\ ret = 0

OverlapNext ==
  \/ Tick
  \/ Skip
  \/ Request
  \/ Lookup
  \/ LogRow
  \/ Update
  \/ Finish
  \/ Advance
  \/ TriggerCheck
  \/ ManualSkip
  \/ ManualRequest
  \/ ManualLookup
  \/ ManualLogRow
  \/ ManualUpdate
  \/ ManualFinish

OverlapSpec == OverlapInit /\ [][OverlapNext]_vars

\* =================================================================== claims
\* the instant a stored timestamp string denotes (Date.parse), in slots
instantOf(ts) == ts[1] * SlotsPerDay + ts[3]

\* a is chronologically older than b, a never-checked title being oldest
Older(a, b) ==
  IF a = NULL THEN b # NULL
  ELSE IF b = NULL THEN FALSE
  ELSE instantOf(a) < instantOf(b)

\* the title with rowid k is part of the returned list
Returned(k) == \E j \in 1..Len(ret) : ret[j].id = titles[k].id

\* C2: the list the selector returns is in last_checked order, oldest first
\* and never-checked titles ahead of every checked one, and no row that
\* satisfies the WHERE clause but was left out is older than a row returned.
C2_SelectorOrdered ==
  pc = "returned" =>
    /\ \A i, j \in 1..Len(ret) : i < j => ~Older(ret[j].last_checked, ret[i].last_checked)
    /\ \A i, j \in 1..Len(ret) :
         ret[i].last_checked # NULL /\ ret[j].last_checked = NULL => i > j
    /\ \A k \in 1..Len(titles) :
         /\ ~Returned(k)
         /\ IsStale(titles[k].last_checked, clock, TARGET_CHECK_FREQUENCY_DAYS)
         => \A j \in 1..Len(ret) : ~Older(titles[k].last_checked, ret[j].last_checked)

\* a never-checked title is returned ahead of a stale one while a third
\* qualifying title is left out
C2_Witness ==
  /\ pc = "returned"
  /\ Len(ret) = 2
  /\ ret[1].last_checked = NULL
  /\ ret[2].last_checked # NULL
  /\ \E k \in 1..Len(titles) :
       ~Returned(k) /\ IsStale(titles[k].last_checked, clock, TARGET_CHECK_FREQUENCY_DAYS)

\* C4: with a limit that leaves room for every row, a title is returned if and
\* only if its last_checked is NULL or lies more than
\* TARGET_CHECK_FREQUENCY_DAYS before the current instant.
C4_QualifiesIffOlderThanThreshold ==
  pc = "returned" /\ arg >= Len(titles) =>
    \A k \in 1..Len(titles) :
      Returned(k) <=>
        \/ titles[k].last_checked = NULL
        \/ instantOf(titles[k].last_checked) < clock - TARGET_CHECK_FREQUENCY_DAYS * SlotsPerDay

\* the rows other than k that are never-checked or at least as old as row k
Rivals(k) ==
  {m \in 1..Len(titles) :
     /\ m # k
     /\ \/ titles[m].last_checked = NULL
        \/ instantOf(titles[m].last_checked) <= instantOf(titles[k].last_checked)}

\* C5: a title checked exactly one day less than the staleness period ago is
\* never returned; a title checked exactly one day more than the staleness
\* period ago is returned whenever the limit exceeds the number of rows that
\* are at least as old.
C5_StalenessBoundary ==
  pc = "returned" =>
    \A k \in 1..Len(titles) :
      titles[k].last_checked # NULL =>
        /\ instantOf(titles[k].last_checked)
             = clock - (TARGET_CHECK_FREQUENCY_DAYS - 1) * SlotsPerDay
           => ~Returned(k)
        /\ /\ instantOf(titles[k].last_checked)
                = clock - (TARGET_CHECK_FREQUENCY_DAYS + 1) * SlotsPerDay
           /\ Cardinality(Rivals(k)) < arg
           => Returned(k)

\* both boundary titles are in the table and the older one is returned
C5_Witness ==
  /\ pc = "returned"
  /\ \E k, m \in 1..Len(titles) :
       /\ titles[k].last_checked # NULL
       /\ titles[m].last_checked # NULL
       /\ instantOf(titles[k].last_checked)
            = clock - (TARGET_CHECK_FREQUENCY_DAYS - 1) * SlotsPerDay
       /\ instantOf(titles[m].last_checked)
            = clock - (TARGET_CHECK_FREQUENCY_DAYS + 1) * SlotsPerDay
       /\ Returned(m)
       /\ ~Returned(k)
       /\ arg = 2

\* the never-checked rows of a list of titles
NeverChecked(rows) == {j \in 1..Len(rows) : rows[j].last_checked = NULL}

\* C9: the batch a run asks the selector for holds at least
\* min(20, number of never-checked titles) never-checked titles, and they
\* fill its first positions, ahead of every checked-but-stale title.
C9_NeverCheckedReserved ==
  pc = "loop" /\ idx = 1 =>
    /\ Cardinality(NeverChecked(staleTitles)) >= Min(20, Cardinality(NeverChecked(allTitles)))
    /\ \A j \in 1..Min(20, Cardinality(NeverChecked(allTitles))) :
         j <= Len(staleTitles) /\ staleTitles[j].last_checked = NULL

\* more than 20 never-checked titles next to stale ones: the batch is the
\* 20 reserved slots
C9_Witness ==
  /\ pc = "loop"
  /\ Cardinality(NeverChecked(allTitles)) > 20
  /\ Cardinality(NeverChecked(allTitles)) < Len(allTitles)
  /\ Len(staleTitles) = 20
  /\ \A j \in 1..20 : staleTitles[j].last_checked = NULL

\* C10: runsPerPeriod is F*24*60/C = 672, and the steady-state batch is the
\* least integer b >= 1 with b * runsPerPeriod >= T: 10 for 6720 titles, 100
\* for 67200 and 1 for every catalog of at most 672 titles.
C10_BatchSizeScaling ==
  pc = "returned" =>
    /\ runsPerPeriod * CRON_INTERVAL_MINUTES = TARGET_CHECK_FREQUENCY_DAYS * 24 * 60
    /\ runsPerPeriod = 672
    /\ ret >= 1
    /\ ret * 672 >= arg
    /\ ret > 1 => (ret - 1) * 672 < arg
    /\ arg = 6720 => ret = 10
    /\ arg = 67200 => ret = 100
    /\ arg <= 672 => ret = 1

\* the batch size of the catalog of 67200 titles has been computed
C10_Witness ==
  /\ pc = "returned"
  /\ arg = 67200
  /\ ret = 100

\* the rows of availability_logs the current run has written for title id
RunRows(id) == {i \in (logBase + 1)..Len(logs) : logs[i].title_id = id}

\* C3: a title whose lookup failed (network error, error status, GraphQL
\* error) is counted as an error, gets no row in this run, keeps its
\* last_checked and is never counted as checked.
C3_LookupFailureIsError ==
  \A j \in 1..Len(staleTitles) :
    lookup[j] = "failed" =>
      /\ outcome[j] \in {"Pending", "Errored"}
      /\ outcome[j] = "Pending" => idx = j
      /\ RunRows(staleTitles[j].id) = {}
      /\ \A k \in 1..Len(titles) :
           titles[k].id = staleTitles[j].id =>
             titles[k].last_checked = staleTitles[j].last_checked

\* C6: for every title of the batch that reached Checked, the run has
\* written exactly as many rows as there are services, one for each service.
C6_TotalCoverageWrite ==
  \A j \in 1..Len(staleTitles) :
    outcome[j] = "Checked" =>
      /\ Cardinality(RunRows(staleTitles[j].id)) = Len(getAllServices)
      /\ \A s \in 1..Len(getAllServices) :
           Cardinality({i \in RunRows(staleTitles[j].id) :
                          logs[i].service_id = getAllServices[s].id}) = 1

\* one run has checked a title the lookup found on no service and a title
\* it found on some of the services
C6_Witness ==
  /\ Len(staleTitles) = 2
  /\ outcome[1] = "Checked"
  /\ outcome[2] = "Checked"
  /\ lookup[1] = "answered"
  /\ lookup[2] = "answered"
  /\ \A i \in RunRows(staleTitles[1].id) : logs[i].is_available = 0
  /\ \E i \in RunRows(staleTitles[2].id) : logs[i].is_available = 1
  /\ \E i \in RunRows(staleTitles[2].id) : logs[i].is_available = 0

\* C8: a title without a JustWatch id never has a row in availability_logs,
\* never has a lookup issued, keeps last_checked NULL, and its only outcome
\* in a run is Skipped, which is what the skipped counter counts.
C8_IdempotentSkip ==
  /\ \A k \in 1..Len(titles) :
       titles[k].justwatch_id = NULL =>
         /\ titles[k].last_checked = NULL
         /\ \A i \in 1..Len(logs) : logs[i].title_id # titles[k].id
  /\ \A j \in 1..Len(staleTitles) :
       staleTitles[j].justwatch_id = NULL =>
         /\ lookup[j] = "none"
         /\ outcome[j] \in {"Pending", "Skipped"}
         /\ outcome[j] = "Pending" => idx <= j
  /\ skipped = Cardinality({j \in 1..Len(staleTitles) : outcome[j] = "Skipped"})
  /\ \A j \in 1..Len(staleTitles) :
       outcome[j] = "Skipped" => staleTitles[j].justwatch_id = NULL

\* a title without a JustWatch id is skipped again in a run a day after the
\* first, next to a title that the runs have checked
C8_Witness ==
  /\ clock >= StartClock + SlotsPerDay
  /\ \E j \in 1..Len(staleTitles) :
       staleTitles[j].justwatch_id = NULL /\ outcome[j] = "Skipped"
  /\ \E k \in 1..Len(titles) : titles[k].last_checked # NULL

\* the row of the titles table with this id
RowOf(id) == CHOOSE k \in 1..Len(titles) : titles[k].id = id

\* the rows of availability_logs the cut-off run wrote for title id
CutRows(id) == {i \in (cut.base + 1)..Len(logs) : logs[i].title_id = id}

\* position of title id in the batch after the cut-off run, 0 if absent
NextPos(id) ==
  IF \E p \in 1..Len(cut.next) : cut.next[p].id = id
  THEN CHOOSE p \in 1..Len(cut.next) : cut.next[p].id = id
  ELSE 0

\* C7 as claimed: when a run is cut off between two titles, every title it
\* had already passed has last_checked set to the run's timestamp and has new
\* rows, every title it had not reached has its last_checked and no new row,
\* and the next run's batch holds no passed title unless it holds every title
\* not reached ahead of it, and leaves out a title not reached only for
\* titles that are no younger.
C7_ProgressDurable ==
  /\ cut.at = "between" =>
       /\ \A j \in 1..cut.done :
            /\ titles[RowOf(cut.batch[j].id)].last_checked = cut.now
            /\ CutRows(cut.batch[j].id) # {}
       /\ \A j \in (cut.done + 1)..Len(cut.batch) :
            /\ titles[RowOf(cut.batch[j].id)].last_checked = cut.batch[j].last_checked
            /\ CutRows(cut.batch[j].id) = {}
  /\ cut.at = "resumed" =>
       /\ \A i \in 1..cut.done : \A j \in (cut.done + 1)..Len(cut.batch) :
            NextPos(cut.batch[i].id) # 0 =>
              /\ NextPos(cut.batch[j].id) # 0
              /\ NextPos(cut.batch[j].id) < NextPos(cut.batch[i].id)
       /\ \A j \in (cut.done + 1)..Len(cut.batch) :
            \/ NextPos(cut.batch[j].id) # 0
            \/ /\ Len(cut.next) > 0
               /\ \A p \in 1..Len(cut.next) :
                    ~Older(cut.batch[j].last_checked, cut.next[p].last_checked)

\* C7 as amended: of the titles the cut-off run had passed, those it checked
\* have last_checked set to the run's timestamp and one new row per service,
\* and those it skipped or failed on keep their last_checked; every title not
\* reached keeps its last_checked and has no new row; the next run's batch
\* holds no title the cut-off run checked unless it holds every title not
\* reached ahead of it, and leaves out a title not reached only for titles
\* that are no younger.
C7_ProgressDurableChecked ==
  /\ cut.at = "between" =>
       /\ \A j \in 1..cut.done :
            IF cut.outcome[j] = "Checked"
            THEN /\ titles[RowOf(cut.batch[j].id)].last_checked = cut.now
                 /\ Cardinality(CutRows(cut.batch[j].id)) = Len(getAllServices)
            ELSE titles[RowOf(cut.batch[j].id)].last_checked = cut.batch[j].last_checked
       /\ \A j \in (cut.done + 1)..Len(cut.batch) :
            /\ titles[RowOf(cut.batch[j].id)].last_checked = cut.batch[j].last_checked
            /\ CutRows(cut.batch[j].id) = {}
  /\ cut.at = "resumed" =>
       /\ \A i \in 1..cut.done : \A j \in (cut.done + 1)..Len(cut.batch) :
            cut.outcome[i] = "Checked" /\ NextPos(cut.batch[i].id) # 0 =>
              /\ NextPos(cut.batch[j].id) # 0
              /\ NextPos(cut.batch[j].id) < NextPos(cut.batch[i].id)
       /\ \A j \in (cut.done + 1)..Len(cut.batch) :
            \/ NextPos(cut.batch[j].id) # 0
            \/ /\ Len(cut.next) > 0
               /\ \A p \in 1..Len(cut.next) :
                    ~Older(cut.batch[j].last_checked, cut.next[p].last_checked)

\* a run was cut off after checking the first of its two titles and the next
\* run's batch is the title it had not reached
C7_Witness ==
  /\ cut.at = "resumed"
  /\ Len(cut.batch) = 2
  /\ cut.done = 1
  /\ cut.outcome[1] = "Checked"
  /\ Len(cut.next) = 1
  /\ cut.next[1].id = cut.batch[2].id
  /\ titles[RowOf(cut.batch[1].id)].last_checked = cut.now

\* the title with rowid k has a JustWatch id and is due for a check
Due(k) ==
  /\ k <= Len(titles)
  /\ titles[k].justwatch_id # NULL
  /\ IsStale(titles[k].last_checked, clock, TARGET_CHECK_FREQUENCY_DAYS)

\* C1: no starvation. With the trigger firing forever on a catalog of fixed
\* size, a title that is due (never checked, or stale) is eventually checked.
\* Stated for the titles that have a JustWatch id, the only ones a run can
\* check; the claim extends it to the titles without one.
C1_NoStarvation ==
  \A k \in 1..MaxTitles : Due(k) ~> ~Due(k)

\* the same, on the catalogs where every title has a JustWatch id
C1_NoStarvationAllResolved ==
  (\A k \in 1..Len(titles) : titles[k].justwatch_id # NULL) =>
    \A k \in 1..MaxTitles : Due(k) ~> ~Due(k)

\* the positions of the batch that the run left with this outcome
Outcomes(o) == {j \in 1..Len(staleTitles) : outcome[j] = o}

\* C11 as claimed: once a store write has failed for a title of the batch,
\* no later title of the batch is looked up, written or given an outcome in
\* that run.
C11_StoreFailureAborts ==
  \A j, k \in 1..Len(staleTitles) :
    outcome[j] = "Errored" /\ j < k =>
      /\ lookup[k] = "none"
      /\ outcome[k] = "Pending"
      /\ RunRows(staleTitles[k].id) = {}

\* C11 as amended: a store write that fails for a title of the batch is
\* caught inside the run: the title is counted in errors and not in checked,
\* it keeps its last_checked and at most one row per service, and the loop
\* has moved on to the titles behind it.
C11_StoreFailureCaught ==
  /\ errors = Cardinality(Outcomes("Errored"))
  /\ checked = Cardinality(Outcomes("Checked"))
  /\ \A j \in Outcomes("Errored") :
       /\ titles[RowOf(staleTitles[j].id)].last_checked = staleTitles[j].last_checked
       /\ Cardinality(RunRows(staleTitles[j].id)) <= Len(getAllServices)
       /\ lookup[j] # "none"
       /\ pc # "idle"
       /\ idx > j

\* a store write failed for the first title of the batch and the run has
\* looked up and checked the second
C11_Witness ==
  /\ Len(staleTitles) = 2
  /\ outcome[1] = "Errored"
  /\ outcome[2] = "Checked"
  /\ lookup[2] = "answered"
  /\ errors = 1
  /\ checked = 1

\* C12: when a lookup of the run was answered with status 429, the run has
\* slept at least RATE_LIMIT_BACKOFF_MS, which is more than API_DELAY_MS, by
\* the time it issues the lookup for the next title of the batch.
C12_RateLimitBackoff ==
  /\ RATE_LIMIT_BACKOFF_MS > API_DELAY_MS
  /\ pc = "lookup" /\ rateLimited => delay >= RATE_LIMIT_BACKOFF_MS

\* position in the batch of the title with this id, 0 if it is not in it
BatchPos(id) ==
  IF \E j \in 1..Len(staleTitles) : staleTitles[j].id = id
  THEN CHOOSE j \in 1..Len(staleTitles) : staleTitles[j].id = id
  ELSE 0

\* C13: a run works through its batch one title at a time in the order the
\* selector returned: the titles behind the loop position are exactly the
\* ones with an outcome, the rows the run has written are in batch order,
\* while the lookup of a title is out every title ahead of it is finished
\* (a checked one has all its rows and its last_checked) and the title
\* itself has no row yet, and at most one lookup is outstanding.
C13_StrictlySequential ==
  /\ inflight <= 1
  /\ inflight = 1 <=> pc = "lookup"
  /\ \A j \in 1..Len(staleTitles) :
       /\ outcome[j] # "Pending" <=> j < idx
       /\ lookup[j] # "none" => j <= idx
  /\ pc # "idle" =>
       \A a, b \in (logBase + 1)..Len(logs) :
         /\ BatchPos(logs[a].title_id) \in 1..idx
         /\ a < b => BatchPos(logs[a].title_id) <= BatchPos(logs[b].title_id)
  /\ pc = "lookup" =>
       /\ RunRows(staleTitles[idx].id) = {}
       /\ lookup[idx] = "none"
       /\ \A j \in 1..(idx - 1) :
            outcome[j] = "Checked" =>
              /\ Cardinality(RunRows(staleTitles[j].id)) = Len(getAllServices)
              /\ titles[RowOf(staleTitles[j].id)].last_checked = now

\* the lookup of the second title of the batch is out after the first title
\* was checked
C13_Witness ==
  /\ pc = "lookup"
  /\ idx = 2
  /\ inflight = 1
  /\ outcome[1] = "Checked"
  /\ Cardinality(RunRows(staleTitles[1].id)) = Len(getAllServices)

\* the rows that satisfy the selection predicate of the selector
Qualifying ==
  {k \in 1..Len(titles) : IsStale(titles[k].last_checked, clock, TARGET_CHECK_FREQUENCY_DAYS)}

C15_DeterministicTieBreak ==
  pc = "again" => staleTitles = ret

\* the slug the fixed table gives for a provider short code, compared
\* without regard to case; "" when the table has no entry for it
TableSlug(code) ==
  IF toLowerCase(code) \in DOMAIN PACKAGE_MAP
  THEN PACKAGE_MAP[toLowerCase(code)]
  ELSE ""

\* C16: of the rows written for a checked title, the row of service S has
\* is_available = 1 if and only if the offer list of the lookup holds a
\* FLATRATE offer whose provider short code the table maps to the slug of S;
\* there is one row per service, and offers with another monetization type
\* or a provider outside the table make no row true.
C16_OfferMapping ==
  pc = "returned" =>
    /\ Len(logs) = Len(seededServices)
    /\ \A s \in 1..Len(seededServices) :
         /\ logs[s].service_id = seededServices[s].id
         /\ logs[s].is_available \in {0, 1}
         /\ logs[s].is_available = 1 <=>
              \E j \in 1..Len(arg) :
                /\ arg[j].monetizationType = "FLATRATE"
                /\ TableSlug(arg[j].shortName) = seededServices[s].slug
    /\ (\A j \in 1..Len(arg) :
          arg[j].monetizationType # "FLATRATE" \/ TableSlug(arg[j].shortName) = "")
       => \A s \in 1..Len(logs) : logs[s].is_available = 0

\* the lookup was answered with a FLATRATE offer of nfx and a RENT offer of
\* xyz: the row of nfx is the only true one
C16_Witness ==
  /\ pc = "returned"
  /\ arg = <<Offer("nfx", "FLATRATE"), Offer("xyz", "RENT")>>
  /\ \A s \in 1..Len(logs) :
       logs[s].is_available = 1 <=> seededServices[s].slug = "nfx"

\* C17: a run on a catalog of 0 titles asks the selector for a batch of 1,
\* gets the empty list and is at the end of its loop at once, with checked,
\* errors and skipped at 0, no lookup issued, no row written and no title
\* stamped.
C17_EmptyCatalogNoOp ==
  pc # "idle" /\ allTitles = <<>> =>
    /\ totalBatchSize(allTitles) = 1
    /\ steadyStateBatchSize(Len(allTitles)) = 1
    /\ staleTitles = <<>>
    /\ pc = "loop"
    /\ idx > Len(staleTitles)
    /\ checked = 0 /\ errors = 0 /\ skipped = 0
    /\ inflight = 0
    /\ lookup = <<>>
    /\ Len(logs) = logBase
    /\ titles = allTitles

\* a run has started on the empty catalog, a slot after an earlier one
C17_Witness ==
  /\ pc = "loop"
  /\ allTitles = <<>>
  /\ titles = <<>>
  /\ clock > StartClock

\* the make-up of the batch drawn in two selector calls: the reserved
\* number of never-checked titles first, then the remainder of the
\* steady-state size filled with the stalest checked titles
TwoCallMakeUp(total, never, stale) ==
  [never |-> Min(Min(NEVER_CHECKED_CAP, never), never),
   stale |-> Min(stale, Max(0, steadyStateBatchSize(total) - Min(NEVER_CHECKED_CAP, never)))]

C18_PartitionEquivalenceSmall ==
  /\ pc = "returned"
  /\ \/ steadyStateBatchSize(arg.total) <= NEVER_CHECKED_CAP
     \/ arg.never <= NEVER_CHECKED_CAP
  => ret = TwoCallMakeUp(arg.total, arg.never, arg.stale)

\* the number of times the title with this id has been checked: every check
\* writes one row for the first service
Checks(id) ==
  Cardinality({i \in 1..Len(logs) :
                 logs[i].title_id = id /\ logs[i].service_id = getAllServices[1].id})

\* C19: starting from titles that all have a JustWatch id and were never
\* checked, no title is ever checked more than twice within the period, and
\* after runsPerPeriod cron triggers every title has been checked at least
\* once and has a last_checked.
C19_QueueFairness ==
  /\ \A k \in 1..Len(titles) : Checks(titles[k].id) <= 2
  /\ arg = runsPerPeriod =>
       \A k \in 1..Len(titles) :
         /\ Checks(titles[k].id) >= 1
         /\ titles[k].last_checked # NULL

\* the period is over for a catalog that took more than one run to check
C19_Witness ==
  /\ arg = runsPerPeriod
  /\ Len(titles) > NEVER_CHECKED_CAP
  /\ \A k \in 1..Len(titles) : Checks(titles[k].id) \in 1..2
  /\ clock = ClockAtTrigger(runsPerPeriod)

\* the title at row k of the run's catalog is part of the run's batch
InBatch(k) == \E j \in 1..Len(staleTitles) : staleTitles[j].id = allTitles[k].id

C21_DuplicateDetection ==
  \A a, b \in 1..Len(titles) :
    a # b =>
      /\ titles[a].justwatch_id # titles[b].justwatch_id
      /\ LOWER(titles[a].name) # LOWER(titles[b].name)

\* C22: after any sequence of import requests, each with at most
\* MAX_TITLES_PER_REQUEST titles, the titles table never holds more than
\* MAX_TOTAL_TITLES rows.
C22_TotalTitleCap ==
  countTitles <= MAX_TOTAL_TITLES

\* C23: in one run every title of the batch is Pending until the loop
\* reaches it and then takes exactly one of Skipped, Checked, Errored, which
\* it keeps for the rest of the run; a lookup is only issued for the Pending
\* title at the loop position that has had none, and no title is in the
\* batch twice; checked, errors and skipped count the titles with that
\* outcome, so at the end of the loop they add up to the size of the batch.
C23_PerTitleStateMachine ==
  /\ [](/\ \A j \in 1..Len(staleTitles) :
             /\ outcome[j] \in {"Pending", "Skipped", "Checked", "Errored"}
             /\ \A k \in 1..Len(staleTitles) : staleTitles[k].id = staleTitles[j].id => k = j
        /\ checked = Cardinality(Outcomes("Checked"))
        /\ errors = Cardinality(Outcomes("Errored"))
        /\ skipped = Cardinality(Outcomes("Skipped"))
        /\ pc = "lookup" => outcome[idx] = "Pending" /\ lookup[idx] = "none"
        /\ pc = "loop" /\ idx > Len(staleTitles) =>
             /\ Outcomes("Pending") = {}
             /\ checked + errors + skipped = Len(staleTitles))
  /\ [][\A j \in 1..Len(staleTitles) :
          /\ outcome[j] # "Pending" /\ pc' # "idle" => outcome'[j] = outcome[j]
          /\ lookup[j] # "none" /\ pc' # "idle" => lookup'[j] = lookup[j]
          /\ outcome[j] = "Pending" /\ pc' # "idle" /\ outcome'[j] # "Pending" => j = idx
          /\ inflight' > inflight => lookup[idx] = "none" /\ outcome[idx] = "Pending"]_vars

\* a run is at the end of its loop with one title Errored and one Skipped
C23_Witness ==
  /\ pc = "loop"
  /\ Len(staleTitles) = 2
  /\ idx = 3
  /\ outcome = <<"Errored", "Skipped">>
  /\ errors = 1
  /\ skipped = 1
  /\ checked = 0

\* C24: when a run issues a lookup after an earlier lookup of the same run,
\* it has slept at least API_DELAY_MS since that lookup returned, whether
\* the earlier title ended Checked or Errored.
C24_Pacing ==
  pc = "lookup" /\ (\E j \in 1..(idx - 1) : lookup[j] # "none") =>
    delay >= API_DELAY_MS

\* C25 as claimed: the lookup of a title issues exactly one request, by
\* path when the title has a full_path and by name when it has none; a
\* request by path that fails or comes back without offers is not followed
\* by a request by name.
C25_OneLookupPerTitle ==
  \A j \in 1..Len(staleTitles) :
    lookup[j] # "none" =>
      /\ Len(calls[j]) = 1
      /\ calls[j][1].by = IF staleTitles[j].full_path # NULL THEN "path" ELSE "name"

\* C25 as amended: the lookup of a title issues one request by name when
\* the title has no full_path; when it has one it issues a request by path
\* and, if and only if that request failed or came back without a title
\* that carries offers, a second request, by name; never more than two, and
\* none for a skipped title.
C25_LookupWithFallback ==
  \A j \in 1..Len(staleTitles) :
    /\ lookup[j] = "none" => calls[j] = <<>>
    /\ outcome[j] = "Skipped" => calls[j] = <<>>
    /\ lookup[j] # "none" =>
         /\ Len(calls[j]) \in {1, 2}
         /\ calls[j][1].by = IF staleTitles[j].full_path # NULL THEN "path" ELSE "name"
         /\ Len(calls[j]) = 2 <=> calls[j][1].by = "path" /\ ~calls[j][1].found
         /\ Len(calls[j]) = 2 => calls[j][2].by = "name"

\* in one run, the lookup of a title with a full_path fell back to a request
\* by name that found the title, and the title was checked; the lookup of
\* another was answered by the request by path alone
C25_Witness ==
  /\ Len(staleTitles) = 2
  /\ staleTitles[1].full_path # NULL
  /\ calls[1] = <<[by |-> "path", found |-> FALSE], [by |-> "name", found |-> TRUE]>>
  /\ outcome[1] = "Checked"
  /\ calls[2] = <<[by |-> "path", found |-> TRUE]>>

\* the title a run is working on: looked up, being written or being stamped
CronAt == IF pc \in {"lookup", "log", "update"} THEN {staleTitles[idx].id} ELSE {}
ManualAt ==
  IF manual.pc \in {"lookup", "log", "update"}
  THEN {manual.staleTitles[manual.idx].id}
  ELSE {}

\* C26: with the cron trigger and POST /api/trigger-check both starting
\* handleScheduled, no title is being processed by two runs at the same time.
C26_SingleWriter ==
  CronAt \cap ManualAt = {}

C28_RequestedSize ==
  pc = "returned" =>
    LET requested == batchSizeOf(arg.total, arg.never)
        steady == steadyStateBatchSize(arg.total)
    IN /\ requested = Max(steady, Min(20, arg.never))
       /\ requested >= steady
       /\ requested >= 1
       /\ requested <= Max(steady, 20)
       /\ ret.never + ret.stale <= requested

\* the batch of a catalog of 67200 titles with 21 never-checked and 700
\* stale ones: the steady-state size of 100 is requested and filled
C28_Witness ==
  /\ pc = "returned"
  /\ arg = [total |-> 67200, never |-> 21, stale |-> 700]
  /\ batchSizeOf(arg.total, arg.never) = 100
  /\ ret.never + ret.stale = 100

\* C29: over any interleaving of runs, no step takes the last_checked of a
\* title from a timestamp back to NULL or to an earlier timestamp.
C29_LastCheckedMonotonic ==
  [][\A k \in 1..Len(titles) :
       titles[k].last_checked # NULL =>
         /\ titles'[k].last_checked # NULL
         /\ instantOf(titles'[k].last_checked) >= instantOf(titles[k].last_checked)]_vars

\* C30: availability_logs never holds two rows with the same title,
\* service and check date.
C30_LogUniqueness ==
  \A a, b \in 1..Len(logs) :
    /\ logs[a].title_id = logs[b].title_id
    /\ logs[a].service_id = logs[b].service_id
    /\ logs[a].check_date = logs[b].check_date
    => a = b

====
